---- MODULE Spec2Model ----
(***************************************************************************)
(* Model of the paginated bulk fetch (RaindropClient.get_all_raindrops,    *)
(* cli/search.py fetch_all_pages) and of the batched link validation       *)
(* (check_link_status / check_links_status) of the Raindrop.io utility.    *)
(*                                                                         *)
(* One call of one routine is modelled per behaviour; `routine` names it.  *)
(* The remote API and the probed web hosts are the environment: a request  *)
(* in flight settles in its own step, in any order within a batch.         *)
(***************************************************************************)
EXTENDS Integers, Sequences, FiniteSets, TLC

VARIABLES
    routine,          \* which routine this behaviour calls
    server,           \* server side: "honest" and "reliable" serve the collection, "endless" never runs out
    total,            \* server side: number of bookmarks of the collection
    count_hint,       \* server side: <<n>> when page responses carry "count": n, <<>> when none
    per_page,         \* argument per_page of the page requests
    max_concurrent,   \* argument max_concurrent
    pc,               \* position of the call
    inflight,         \* requests issued and not yet settled (page indices / task positions)
    results,          \* settled requests of the awaited batch, in the order they settled
    batch,            \* the pages (or task items) of the batch being awaited
    items,            \* get_all_raindrops: items
    count,            \* get_all_raindrops: count
    remaining_pages,  \* get_all_raindrops: remaining_pages
    i,                \* loop index i of get_all_raindrops / check_links_status
    all_items,        \* fetch_all_pages: all_items
    page,             \* fetch_all_pages: page
    reqlog,           \* history: page indices requested, in issue order
    batches,          \* history: number of batches issued after page 0
    sleeps,           \* history: number of asyncio.sleep(6) calls
    link_items,       \* check_links_status: argument items
    broken,           \* check_links_status: broken
    probelog,         \* history: positions (in link_items) of the items probed, in issue order
    run,              \* number of the check_links_status invocation (1 or 2)
    first_broken,     \* what the first invocation returned
    url_map,          \* duplicate grouping: url_map / url_groups
    duplicates,       \* duplicate grouping: duplicates
    entry,            \* the tool or command that needs the client ("none": the routine is called directly)
    token,            \* [arg, env]: the token argument and RAINDROP_TOKEN, <<>> when absent
    raindrop_client,  \* server.py: _raindrop_client, the tool-side client cache
    reports,          \* number of report files written
    outcome,          \* how the tool or command ended
    attempts,         \* history: number of RaindropClient() calls made by get_raindrop_client
    constructions,    \* history: number of those that returned an instance
    handed,           \* history: per get_raindrop_client call, <<n>> for instance n, <<>> if it raised
    divisors          \* history: the divisors of the divisions evaluated for the output

vars == <<routine, server, total, count_hint, per_page, max_concurrent, pc, inflight,
          results, batch, items, count, remaining_pages, i, all_items, page,
          reqlog, batches, sleeps, link_items, broken, probelog, run,
          first_broken, url_map, duplicates, entry, token, raindrop_client,
          reports, outcome, attempts, constructions, handed, divisors>>

fetchVars == <<total, count_hint, per_page, items, count, remaining_pages,
               all_items, page, reqlog, batches, sleeps>>

linkVars == <<link_items, broken, probelog, run, first_broken>>

\* the histories of the tool calls
histVars == <<attempts, constructions, handed, divisors>>

\* what no step of a routine changes
ctxVars == <<server, url_map, duplicates, entry, token, raindrop_client, reports,
             outcome, histVars>>

----------------------------------------------------------------------------
(* Bounds of the model *)

MaxTotal == 151
MaxConcurrent == 3
MaxItems == 3
MaxFailPage == 2
MaxRateConcurrent == 13
MaxHintPages == 3
MaxDupItems == 4
MaxEntryItems == 2
MaxCalls == 10
MaxNegative == 2

(* Program constants *)

PageSize == 50
SafetyLimit == 100

----------------------------------------------------------------------------
(* Python helpers *)

Min(a, b) == IF a < b THEN a ELSE b

\* dict.get(key, default)
DictGet(d, key, default) == IF key \in DOMAIN d THEN d[key] ELSE default

\* list(range(lo, hi))
Range(lo, hi) == [k \in 1..(IF hi > lo THEN hi - lo ELSE 0) |-> lo + k - 1]

\* a slice that runs to the end of the list
Slice_unbounded(seq, lo, hi) == SubSeq(seq, lo + 1, Len(seq))

\* seq[lo:hi] with 0 <= lo (Python slice, 0-based, hi exclusive, clipped)
Slice(seq, lo, hi) == SubSeq(seq, lo + 1, Min(hi, Len(seq)))

SeqToSet(seq) == {seq[k] : k \in DOMAIN seq}

\* isinstance(result, Exception)
IsException(r) == "error" \in DOMAIN r

----------------------------------------------------------------------------
(* The remote API: GET /raindrops/{id}?page=&perpage= over a collection of *)
(* `total` bookmarks, numbered 1..total in the server's sort order.        *)

\* search_raindrops clamps the page size it sends
PerPageSent(pp) == Min(pp, PageSize)

\* an endless server answers every page index with a full page
ServerPage(p, pp) ==
    LET lo == p * PerPageSent(pp)
        hi == IF server = "endless" THEN lo + PerPageSent(pp)
              ELSE Min(total, lo + PerPageSent(pp))
    IN  Range(lo + 1, hi + 1)

ServerResponse(p, pp) ==
    IF count_hint = <<>>
    THEN [items |-> ServerPage(p, pp)]
    ELSE [items |-> ServerPage(p, pp), count |-> count_hint[1]]

\* response.raise_for_status() or a transport fault
HTTPError == [error |-> "HTTPError"]

----------------------------------------------------------------------------
(* The environment settles one page request: the server answers it, or the *)
(* request fails (raise_for_status, transport fault).                      *)

\* the requests that may fail: any request to the honest server; of the long
\* scans over the endless server, those for the first pages
\* no request to the reliable server fails
MayFail(p) == server = "honest" \/ (server = "endless" /\ p <= MaxFailPage)

PageSettles(p) ==
    /\ routine \in {"get_all_raindrops", "fetch_all_pages"}
    /\ p \in inflight
    /\ \E r \in {ServerResponse(p, per_page)} \cup (IF MayFail(p) THEN {HTTPError} ELSE {}) :
           results' = Append(results, [req |-> p, out |-> r])
    /\ inflight' = inflight \ {p}
    /\ UNCHANGED <<ctxVars, routine, max_concurrent, pc, batch, i, fetchVars, linkVars>>

\* the outcome of a settled request
ResultOf(r) == (CHOOSE s \in SeqToSet(results) : s.req = r).out

Settled(reqs) == SeqToSet(reqs) \cap inflight = {}

\* await asyncio.gather(*tasks): the outcomes in the order the tasks were
\* passed, whatever order they settled in
GatherResults_completion_order == [k \in DOMAIN results |-> results[k].out]
GatherResults == [k \in DOMAIN batch |-> ResultOf(batch[k])]

----------------------------------------------------------------------------
(* RaindropClient.get_all_raindrops *)

\* total_pages = (count + 49) // 50
TotalPages_floor(c) == c \div PageSize
TotalPages(c) == (c + 49) \div PageSize

\* if count <= 50: return items
FirstPageIsAll(c) == c <= PageSize

\* for result in results: items.extend(result.get("items", []))
RECURSIVE ExtendAll(_, _, _)
ExtendAll(acc, rs, k) ==
    IF k > Len(rs) THEN acc
    ELSE ExtendAll(acc \o DictGet(rs[k], "items", <<>>), rs, k + 1)

\* first_page = await self.search_raindrops(page=0, per_page=50): the request goes out
GarStart ==
    /\ routine = "get_all_raindrops"
    /\ pc = "start"
    /\ inflight' = {0}
    /\ results' = <<>>
    /\ reqlog' = <<0>>
    /\ pc' = "first"
    /\ UNCHANGED <<ctxVars, routine, total, count_hint, per_page, max_concurrent,
                   batch, items, count, remaining_pages, i, all_items, page,
                   batches, sleeps, linkVars>>

\* an await outside any try block: the exception of the awaited call propagates
AwaitRaises_swallowed(r) == FALSE
AwaitRaises(r) == IsException(r)

\* the first page has settled: lines 169-186, up to the first batch
GarFirst ==
    /\ routine = "get_all_raindrops"
    /\ pc = "first"
    /\ 0 \notin inflight
    /\ IF AwaitRaises(ResultOf(0))
       THEN \* the await raises: nothing is caught in get_all_raindrops
            /\ pc' = "raised"
            /\ UNCHANGED <<items, count, remaining_pages, i>>
       ELSE LET first_page == ResultOf(0)
                c == DictGet(first_page, "count", 0)
            IN  /\ items' = DictGet(first_page, "items", <<>>)
                /\ count' = c
                /\ IF FirstPageIsAll(c)
                   THEN /\ pc' = "done"
                        /\ UNCHANGED <<remaining_pages, i>>
                   ELSE /\ remaining_pages' = Range(1, TotalPages(c))
                        /\ i' = 0
                        \* range(0, len(remaining_pages), max_concurrent):
                        \* step 0 is a ValueError, a negative step an empty range
                        /\ pc' = IF max_concurrent = 0 THEN "raised"
                                 ELSE IF max_concurrent < 0 THEN "done"
                                 ELSE "batch"
    /\ UNCHANGED <<ctxVars, routine, total, count_hint, per_page, max_concurrent, inflight,
                   results, batch, all_items, page, reqlog, batches, sleeps,
                   linkVars>>

\* lines 193-207: build the batch's tasks and hand them to asyncio.gather
GarIssueBatch ==
    /\ routine = "get_all_raindrops"
    /\ pc = "batch"
    /\ LET b == Slice(remaining_pages, i, i + max_concurrent)
       IN  /\ batch' = b
           /\ inflight' = inflight \cup SeqToSet(b)
           /\ reqlog' = reqlog \o b
    /\ results' = <<>>
    /\ batches' = batches + 1
    /\ pc' = "gather"
    /\ UNCHANGED <<ctxVars, routine, total, count_hint, per_page, max_concurrent,
                   items, count, remaining_pages, i, all_items, page, sleeps,
                   linkVars>>

\* the exception of a task swallowed and the loop carried on
GarGatherRaises_caught ==
    /\ routine = "get_all_raindrops"
    /\ pc = "gather"
    /\ \E k \in DOMAIN batch :
          /\ batch[k] \notin inflight
          /\ IsException(ResultOf(batch[k]))
    /\ pc' = IF i + max_concurrent < Len(remaining_pages) THEN "sleep" ELSE "done"
    /\ UNCHANGED <<ctxVars, routine, max_concurrent, inflight, results, batch, i,
                   fetchVars, linkVars>>

\* asyncio.gather(*tasks) without return_exceptions: the first exception of a
\* task is raised to the awaiting caller at once; the other tasks keep running
GarGatherRaises ==
    /\ routine = "get_all_raindrops"
    /\ pc = "gather"
    /\ \E k \in DOMAIN batch :
          /\ batch[k] \notin inflight
          /\ IsException(ResultOf(batch[k]))
    /\ pc' = "raised"
    /\ UNCHANGED <<ctxVars, routine, max_concurrent, inflight, results, batch, i,
                   fetchVars, linkVars>>

\* if i + max_concurrent < len(remaining_pages): await asyncio.sleep(6)
SleepBetween_always(ix, mc, n) == TRUE
SleepBetween(ix, mc, n) == ix + mc < n

\* for i in range(0, len(remaining_pages), max_concurrent): the next iteration,
\* or the end of the loop and return items
GarLoopNext ==
    IF i + max_concurrent < Len(remaining_pages)
    THEN i' = i + max_concurrent /\ pc' = "batch"
    ELSE i' = i /\ pc' = "done"

\* lines 207-213: every task returned; extend items, then sleep or go on
GarGatherReturns ==
    /\ routine = "get_all_raindrops"
    /\ pc = "gather"
    /\ Settled(batch)
    /\ \A k \in DOMAIN batch : ~IsException(ResultOf(batch[k]))
    /\ items' = ExtendAll(items, GatherResults, 1)
    /\ IF SleepBetween(i, max_concurrent, Len(remaining_pages))
       THEN pc' = "sleep" /\ i' = i
       ELSE GarLoopNext
    /\ UNCHANGED <<ctxVars, routine, total, count_hint, per_page, max_concurrent, inflight,
                   results, batch, count, remaining_pages, all_items, page,
                   reqlog, batches, sleeps, linkVars>>

\* await asyncio.sleep(6) returns, then the for loop goes on
GarSleep ==
    /\ routine = "get_all_raindrops"
    /\ pc = "sleep"
    /\ sleeps' = sleeps + 1
    /\ GarLoopNext
    /\ UNCHANGED <<ctxVars, routine, total, count_hint, per_page, max_concurrent, inflight,
                   results, batch, items, count, remaining_pages, all_items, page,
                   reqlog, batches, linkVars>>

----------------------------------------------------------------------------
(* cli/search.py fetch_all_pages (search_cli.py holds the same code) *)

\* the loop over batch_results: errors and empty pages are counted
EmptyCount_errors_skipped(rs) ==
    Cardinality({k \in DOMAIN rs :
                    ~IsException(rs[k]) /\ DictGet(rs[k], "items", <<>>) = <<>>})
EmptyCount(rs) ==
    Cardinality({k \in DOMAIN rs :
                    IsException(rs[k]) \/ DictGet(rs[k], "items", <<>>) = <<>>})

\* the loop over batch_results: the items of the pages that came back are kept
RECURSIVE ExtendOk(_, _, _)
ExtendOk(acc, rs, k) ==
    IF k > Len(rs) THEN acc
    ELSE IF IsException(rs[k]) THEN ExtendOk(acc, rs, k + 1)
    ELSE ExtendOk(acc \o DictGet(rs[k], "items", <<>>), rs, k + 1)

\* if page > 100: the safety limit
LimitReached_never(pg) == FALSE
LimitReached_early(pg) == pg >= SafetyLimit
LimitReached(pg) == pg > SafetyLimit

\* if first_page_count < per_page: return all_items
FirstPageIsShort_orfull(n, pp) == n <= pp
FirstPageIsShort(n, pp) == n < pp

\* first_result = await client.search_raindrops(page=0, per_page=per_page)
FapStart ==
    /\ routine = "fetch_all_pages"
    /\ pc = "start"
    /\ inflight' = {0}
    /\ results' = <<>>
    /\ reqlog' = <<0>>
    /\ pc' = "first"
    /\ UNCHANGED <<ctxVars, routine, total, count_hint, per_page, max_concurrent,
                   batch, items, count, remaining_pages, i, all_items, page,
                   batches, sleeps, linkVars>>

\* the first page has settled: lines 146-169
FapFirst ==
    /\ routine = "fetch_all_pages"
    /\ pc = "first"
    /\ 0 \notin inflight
    /\ IF AwaitRaises(ResultOf(0))
       THEN /\ pc' = "raised"
            /\ UNCHANGED <<all_items, page>>
       ELSE LET first == DictGet(ResultOf(0), "items", <<>>)
            IN  /\ all_items' = first
                /\ IF FirstPageIsShort(Len(first), per_page)
                   THEN /\ pc' = "done"
                        /\ UNCHANGED page
                   ELSE /\ page' = 1
                        /\ pc' = "batch"
    /\ UNCHANGED <<ctxVars, routine, total, count_hint, per_page, max_concurrent, inflight,
                   results, batch, items, count, remaining_pages, i, reqlog,
                   batches, sleeps, linkVars>>

\* lines 172-186: the batch's tasks are built and handed to asyncio.gather
FapIssueBatch ==
    /\ routine = "fetch_all_pages"
    /\ pc = "batch"
    /\ LET batch_pages == Range(page, page + max_concurrent)
       IN  /\ batch' = batch_pages
           /\ inflight' = inflight \cup SeqToSet(batch_pages)
           /\ reqlog' = reqlog \o batch_pages
    /\ results' = <<>>
    /\ batches' = batches + 1
    /\ pc' = "gather"
    /\ UNCHANGED <<ctxVars, routine, total, count_hint, per_page, max_concurrent,
                   items, count, remaining_pages, i, all_items, page, sleeps,
                   linkVars>>

\* lines 186-213: gather(return_exceptions=True) returns once every task has
\* settled; the results are processed, then the loop ends or goes on
\* page += max_concurrent
NextPage_by_one(pg, mc) == pg + 1
NextPage(pg, mc) == pg + mc

FapProcess ==
    /\ routine = "fetch_all_pages"
    /\ pc = "gather"
    /\ Settled(batch)
    /\ all_items' = ExtendOk(all_items, GatherResults, 1)
    /\ IF EmptyCount(GatherResults) = Len(GatherResults)
       THEN /\ pc' = "done"
            /\ UNCHANGED page
       ELSE /\ page' = NextPage(page, max_concurrent)
            /\ pc' = IF LimitReached(page') THEN "done" ELSE "batch"
    /\ UNCHANGED <<ctxVars, routine, total, count_hint, per_page, max_concurrent, inflight,
                   results, batch, items, count, remaining_pages, i, reqlog,
                   batches, sleeps, linkVars>>

----------------------------------------------------------------------------
(* Text: a Python str is modelled as the sequence of its characters *)

Digit == <<"0", "1", "2", "3", "4", "5", "6", "7", "8", "9">>

\* f"{n}" for an int n >= 0
RECURSIVE Str(_)
Str(n) == IF n < 10 THEN <<Digit[n + 1]>>
          ELSE Str(n \div 10) \o <<Digit[(n % 10) + 1]>>

Rep(c, n) == [k \in 1..n |-> c]

\* s[:n]
Prefix(s, n) == SubSeq(s, 1, Min(n, Len(s)))

----------------------------------------------------------------------------
(* The probed hosts: what a HEAD request to each URL ends in.  The same    *)
(* URL always ends the same way (a fixed, simulated transport).            *)

ErrTruncate == 50
\* "API limit: 120 req/min = 2 req/sec"; await asyncio.sleep(6)
RateLimit == 120
SleepSeconds == 6

LongFault == Rep("x", ErrTruncate) \o <<"y", "z">>

Transport(url) ==
    CASE url = "http://ok/"      -> [status_code |-> 200]
      [] url = "http://moved/"   -> [status_code |-> 399]
      [] url = "http://badreq/"  -> [status_code |-> 400]
      [] url = "http://gone/"    -> [status_code |-> 404]
      [] url = "http://down/"    -> [status_code |-> 500]
      [] url = "http://slow/"    -> [exc |-> "TimeoutException"]
      [] url = "http://nohost/"  -> [exc |-> "ConnectError"]
      [] OTHER                   -> [exc |-> "Exception", text |-> LongFault]

URLs == {"http://ok/", "http://moved/", "http://badreq/", "http://gone/",
         "http://down/", "http://slow/", "http://nohost/", "http://weird/"}

----------------------------------------------------------------------------
(* server.py check_link_status: (is_ok, status_message) of one probe *)

HttpPrefix == <<"H", "T", "T", "P", " ">>
TimeoutText == <<"T", "i", "m", "e", "o", "u", "t">>
ConnectFailedText == <<"C", "o", "n", "n", "e", "c", "t", "i", "o", "n", " ",
                       "f", "a", "i", "l", "e", "d">>
ErrorPrefix == <<"E", "r", "r", "o", "r", ":", " ">>

\* a probe's outcome: the tuple (is_ok, status_message)
Tuple(ok, status) == [is_ok |-> ok, status |-> status]

\* lines 479-482: the final response (redirects followed) is classified
ClassifyResponse_bare(code) ==
    IF code < 400 THEN Tuple(TRUE, Str(code)) ELSE Tuple(FALSE, Str(code))
ClassifyResponse(code) ==
    IF code < 400 THEN Tuple(TRUE, Str(code))
    ELSE Tuple(FALSE, HttpPrefix \o Str(code))

\* lines 483-488: the except clauses, in order
ClassifyFault_no_catch_all(o) ==
    IF o.exc = "TimeoutException" THEN Tuple(FALSE, TimeoutText)
    ELSE IF o.exc = "ConnectError" THEN Tuple(FALSE, ConnectFailedText)
    ELSE [error |-> o.exc]
ClassifyFault(o) ==
    IF o.exc = "TimeoutException" THEN Tuple(FALSE, TimeoutText)
    ELSE IF o.exc = "ConnectError" THEN Tuple(FALSE, ConnectFailedText)
    ELSE Tuple(FALSE, ErrorPrefix \o Prefix(o.text, ErrTruncate))

check_link_status(url) ==
    LET o == Transport(url)
    IN  IF "status_code" \in DOMAIN o
        THEN ClassifyResponse(o.status_code)
        ELSE ClassifyFault(o)

----------------------------------------------------------------------------
(* server.py check_links_status *)

\* a bookmark record; one without a "link" key when v = NoLink
NoLink == "(no link key)"
MkItem(k, v) == IF v = NoLink THEN [id |-> k] ELSE [id |-> k, link |-> v]

\* url = item.get("link", "") of the item at position k of the argument
UrlAt(k) == DictGet(link_items[k], "link", "")

\* if url: tasks.append(...)  -- the positions of the batch's items that get a task
HasUrl_always(k) == TRUE
HasUrl(k) == UrlAt(k) # ""

\* for (item, _), (is_ok, status) in zip(tasks, results): the failures, in order
ZipBroken_batch(tasks, rs) ==
    LET idx == SelectSeq(Range(1, Len(rs) + 1), LAMBDA k : ~rs[k].is_ok)
    IN  [k \in DOMAIN idx |-> <<link_items[i + idx[k]], rs[idx[k]].status>>]
ZipBroken(tasks, rs) ==
    LET n == Min(Len(tasks), Len(rs))
        idx == SelectSeq(Range(1, n + 1), LAMBDA k : ~rs[k].is_ok)
    IN  [k \in DOMAIN idx |-> <<link_items[tasks[idx[k]]], rs[idx[k]].status>>]

\* broken = []; for i in range(0, len(items), max_concurrent)
ClsStart ==
    /\ routine = "check_links_status"
    /\ pc = "start"
    /\ broken' = <<>>
    /\ probelog' = <<>>
    /\ i' = 0
    \* a step of 0 is a ValueError; a negative step or no item is an empty range
    /\ pc' = IF max_concurrent = 0 THEN "raised"
             ELSE IF max_concurrent < 0 \/ Len(link_items) = 0 THEN "done"
             ELSE "batch"
    /\ UNCHANGED <<ctxVars, routine, max_concurrent, inflight, results, batch, fetchVars,
                   link_items, run, first_broken>>

\* lines 502-511: the batch's tasks are built and handed to asyncio.gather
ClsIssueBatch ==
    /\ routine = "check_links_status"
    /\ pc = "batch"
    /\ LET last == Min(i + max_concurrent, Len(link_items))
           tasks == SelectSeq(Range(i + 1, last + 1), HasUrl)
       IN  /\ batch' = tasks
           /\ inflight' = inflight \cup SeqToSet(tasks)
           /\ probelog' = probelog \o tasks
    /\ results' = <<>>
    /\ pc' = "gather"
    /\ UNCHANGED <<ctxVars, routine, max_concurrent, i, fetchVars, link_items, broken, run,
                   first_broken>>

\* one probe ends: check_link_status returns its (is_ok, status)
ProbeSettles(t) ==
    /\ routine = "check_links_status"
    /\ t \in inflight
    /\ results' = Append(results, [req |-> t, out |-> check_link_status(UrlAt(t))])
    /\ inflight' = inflight \ {t}
    /\ UNCHANGED <<ctxVars, routine, max_concurrent, pc, batch, i, fetchVars, linkVars>>

\* lines 511-517: gather (no return_exceptions) raises the first exception of a
\* task at once; else, once all returned, the failures are appended and the
\* loop goes on
ClsProcess ==
    /\ routine = "check_links_status"
    /\ pc = "gather"
    /\ IF \E k \in DOMAIN results : IsException(results[k].out)
       THEN /\ pc' = "raised"
            /\ UNCHANGED <<broken, i>>
       ELSE /\ Settled(batch)
            /\ broken' = broken \o ZipBroken(batch, GatherResults)
            /\ i' = i + max_concurrent
            /\ pc' = IF i' < Len(link_items) THEN "batch" ELSE "done"
    /\ UNCHANGED <<ctxVars, routine, max_concurrent, inflight, results, batch, fetchVars,
                   link_items, probelog, run, first_broken>>

\* a caller invokes check_links_status again on the same list
ClsAgain ==
    /\ routine = "check_links_status"
    /\ pc = "done"
    /\ run = 1
    /\ first_broken' = broken
    /\ run' = 2
    /\ pc' = "start"
    /\ UNCHANGED <<ctxVars, routine, max_concurrent, inflight, results, batch, i, fetchVars,
                   link_items, broken, probelog>>

----------------------------------------------------------------------------
(* client.py RaindropClient.__init__ *)

\* no token argument, RAINDROP_TOKEN set
EnvToken == [arg |-> <<>>, env |-> <<"secret">>]

\* token or os.getenv("RAINDROP_TOKEN")
TokenOr(arg, env) == IF arg # <<>> /\ arg[1] # "" THEN arg ELSE env

\* if not self.token: raise ValueError
MissingToken_never(t) == FALSE
MissingToken(t) == t = <<>> \/ t[1] = ""

----------------------------------------------------------------------------
(* One call: the caller's arguments and the environment are chosen in Init *)

Totals == 0..MaxTotal
PerPages == {PageSize}
LinkValues == URLs \cup {"", NoLink}

Init ==
    /\ routine \in {"get_all_raindrops", "fetch_all_pages", "check_links_status"}
    /\ server = "honest"
    /\ max_concurrent \in 1..MaxConcurrent
    /\ pc = "start"
    /\ inflight = {}
    /\ results = <<>>
    /\ batch = <<>>
    /\ items = <<>>
    /\ count = 0
    /\ remaining_pages = <<>>
    /\ i = 0
    /\ all_items = <<>>
    /\ page = 0
    /\ reqlog = <<>>
    /\ batches = 0
    /\ sleeps = 0
    /\ broken = <<>>
    /\ probelog = <<>>
    /\ run = 1
    /\ first_broken = <<>>
    /\ url_map = <<>>
    /\ duplicates = <<>>
    /\ entry = "none"
    /\ token = EnvToken
    /\ raindrop_client = "None"
    /\ reports = 0
    /\ outcome = "pending"
    /\ attempts = 0
    /\ constructions = 0
    /\ handed = <<>>
    /\ divisors = {}
    /\ IF routine = "check_links_status"
       THEN /\ total = 0
            /\ count_hint = <<>>
            /\ per_page = PageSize
            /\ \E n \in 0..MaxItems :
                 \E f \in [1..n -> LinkValues] :
                    link_items = [k \in 1..n |-> MkItem(k, f[k])]
       ELSE /\ total \in Totals
            /\ count_hint \in {<<>>, <<total>>}
            \* get_all_raindrops passes per_page=50 itself
            /\ per_page \in (IF routine = "get_all_raindrops" THEN {PageSize} ELSE PerPages)
            /\ link_items = <<>>

Next ==
    \/ GarStart
    \/ GarFirst
    \/ GarIssueBatch
    \/ GarGatherRaises
    \/ GarGatherReturns
    \/ GarSleep
    \/ FapStart
    \/ FapFirst
    \/ FapIssueBatch
    \/ FapProcess
    \/ \E p \in inflight : PageSettles(p)
    \/ ClsStart
    \/ ClsIssueBatch
    \/ \E t \in inflight : ProbeSettles(t)
    \/ ClsProcess
    \/ ClsAgain

Spec == Init /\ [][Next]_vars

----------------------------------------------------------------------------
(* fetch_all_pages against a server that never returns an empty page *)

InitScan ==
    /\ routine = "fetch_all_pages"
    /\ server = "endless"
    /\ max_concurrent \in 1..MaxConcurrent
    /\ pc = "start"
    /\ inflight = {}
    /\ results = <<>>
    /\ batch = <<>>
    /\ items = <<>>
    /\ count = 0
    /\ remaining_pages = <<>>
    /\ i = 0
    /\ all_items = <<>>
    /\ page = 0
    /\ reqlog = <<>>
    /\ batches = 0
    /\ sleeps = 0
    /\ broken = <<>>
    /\ probelog = <<>>
    /\ run = 1
    /\ first_broken = <<>>
    /\ url_map = <<>>
    /\ duplicates = <<>>
    /\ entry = "none"
    /\ token = EnvToken
    /\ raindrop_client = "None"
    /\ reports = 0
    /\ outcome = "pending"
    /\ attempts = 0
    /\ constructions = 0
    /\ handed = <<>>
    /\ divisors = {}
    /\ total = 0
    /\ count_hint = <<>>
    /\ per_page = PageSize
    /\ link_items = <<>>

NextScan ==
    \/ FapStart
    \/ FapFirst
    \/ FapIssueBatch
    \/ FapProcess
    \/ \E p \in inflight : PageSettles(p)

SpecScan == InitScan /\ [][NextScan]_vars

----------------------------------------------------------------------------
(* get_all_raindrops with large max_concurrent, over a collection of two   *)
(* full batches of remaining pages, the server answering in request order  *)

RateTotal == PageSize * (2 * MaxRateConcurrent + 1)

InitRate ==
    /\ routine = "get_all_raindrops"
    /\ server = "honest"
    /\ max_concurrent \in 1..MaxRateConcurrent
    /\ pc = "start"
    /\ inflight = {}
    /\ results = <<>>
    /\ batch = <<>>
    /\ items = <<>>
    /\ count = 0
    /\ remaining_pages = <<>>
    /\ i = 0
    /\ all_items = <<>>
    /\ page = 0
    /\ reqlog = <<>>
    /\ batches = 0
    /\ sleeps = 0
    /\ broken = <<>>
    /\ probelog = <<>>
    /\ run = 1
    /\ first_broken = <<>>
    /\ url_map = <<>>
    /\ duplicates = <<>>
    /\ entry = "none"
    /\ token = EnvToken
    /\ raindrop_client = "None"
    /\ reports = 0
    /\ outcome = "pending"
    /\ attempts = 0
    /\ constructions = 0
    /\ handed = <<>>
    /\ divisors = {}
    /\ total = RateTotal
    /\ count_hint = <<total>>
    /\ per_page = PageSize
    /\ link_items = <<>>

\* the oldest request in flight is answered with its page
PageAnswered ==
    \E p \in inflight :
       /\ \A q \in inflight : p <= q
       /\ PageSettles(p)
       /\ ~IsException(results'[Len(results')].out)

NextRate ==
    \/ GarStart
    \/ GarFirst
    \/ GarIssueBatch
    \/ GarGatherReturns
    \/ GarSleep
    \/ PageAnswered

SpecRate == InitRate /\ [][NextRate]_vars

----------------------------------------------------------------------------
(* the fetch-all routines over a server whose count field need not be the  *)
(* number of bookmarks it serves                                           *)

\* first_page.get("count", 0): absent, zero, or one past a number of full pages
Hints == {<<>>, <<0>>} \cup {<<k * PageSize + 1>> : k \in 0..MaxHintPages}

HintTotals == {PageSize - 1, PageSize}

InitHint ==
    /\ routine \in {"get_all_raindrops", "fetch_all_pages"}
    /\ server = "honest"
    /\ max_concurrent \in 1..MaxConcurrent
    /\ pc = "start"
    /\ inflight = {}
    /\ results = <<>>
    /\ batch = <<>>
    /\ items = <<>>
    /\ count = 0
    /\ remaining_pages = <<>>
    /\ i = 0
    /\ all_items = <<>>
    /\ page = 0
    /\ reqlog = <<>>
    /\ batches = 0
    /\ sleeps = 0
    /\ broken = <<>>
    /\ probelog = <<>>
    /\ run = 1
    /\ first_broken = <<>>
    /\ url_map = <<>>
    /\ duplicates = <<>>
    /\ entry = "none"
    /\ token = EnvToken
    /\ raindrop_client = "None"
    /\ reports = 0
    /\ outcome = "pending"
    /\ attempts = 0
    /\ constructions = 0
    /\ handed = <<>>
    /\ divisors = {}
    /\ total \in HintTotals
    /\ count_hint \in Hints
    /\ per_page = PageSize
    /\ link_items = <<>>

NextHint ==
    \/ GarStart
    \/ GarFirst
    \/ GarIssueBatch
    \/ GarGatherRaises
    \/ GarGatherReturns
    \/ GarSleep
    \/ FapStart
    \/ FapFirst
    \/ FapIssueBatch
    \/ FapProcess
    \/ \E p \in inflight : PageSettles(p)

SpecHint == InitHint /\ [][NextHint]_vars

----------------------------------------------------------------------------
(* Duplicate grouping: server.py find_duplicates (398-408) and             *)
(* get_statistics (349-357), cli/search.py find_duplicates_report          *)
(* (232-242) hold the same loop over the fetched items                     *)

Groupers == {"find_duplicates", "get_statistics", "find_duplicates_report"}

\* the links of the fetched items: two URLs, the empty string, no link key
DupLinks == {"http://ok/", "http://gone/", "", NoLink}

\* if url not in url_map: url_map[url] = []; url_map[url].append(item)
MapAppend(m, url, item) ==
    IF url \in DOMAIN m
    THEN [m EXCEPT ![url] = Append(@, item)]
    ELSE [u \in DOMAIN m \cup {url} |-> IF u = url THEN <<item>> ELSE m[u]]

\* if len(bookmarks) > 1
IsDuplicated_single(bookmarks) == Len(bookmarks) >= 1
IsDuplicated(bookmarks) == Len(bookmarks) > 1

\* url_map = {}
DupStart ==
    /\ routine \in Groupers
    /\ pc = "start"
    /\ url_map' = <<>>
    /\ i' = 0
    /\ pc' = "group"
    /\ UNCHANGED <<histVars, server, duplicates, entry, token, raindrop_client, reports, outcome,
                   routine, max_concurrent, inflight, results, batch, fetchVars,
                   linkVars>>

\* one iteration of: for item in items
DupGroup ==
    /\ routine \in Groupers
    /\ pc = "group"
    /\ i < Len(link_items)
    /\ LET item == link_items[i + 1]
           url == DictGet(item, "link", "")
       IN  url_map' = IF url # "" THEN MapAppend(url_map, url, item) ELSE url_map
    /\ i' = i + 1
    /\ UNCHANGED <<histVars, server, duplicates, entry, token, raindrop_client, reports, outcome,
                   routine, max_concurrent, pc, inflight, results, batch, fetchVars,
                   linkVars>>

\* duplicates = {url: bookmarks for url, bookmarks in url_map.items() if len(bookmarks) > 1}
DupFilter ==
    /\ routine \in Groupers
    /\ pc = "group"
    /\ i = Len(link_items)
    /\ duplicates' = [u \in {v \in DOMAIN url_map : IsDuplicated(url_map[v])} |-> url_map[u]]
    /\ pc' = "done"
    /\ UNCHANGED <<histVars, server, url_map, entry, token, raindrop_client, reports, outcome,
                   routine, max_concurrent, i, inflight, results, batch, fetchVars,
                   linkVars>>

InitDup ==
    /\ routine \in Groupers
    /\ server = "honest"
    /\ max_concurrent = 1
    /\ pc = "start"
    /\ inflight = {}
    /\ results = <<>>
    /\ batch = <<>>
    /\ items = <<>>
    /\ count = 0
    /\ remaining_pages = <<>>
    /\ i = 0
    /\ all_items = <<>>
    /\ page = 0
    /\ reqlog = <<>>
    /\ batches = 0
    /\ sleeps = 0
    /\ broken = <<>>
    /\ probelog = <<>>
    /\ run = 1
    /\ first_broken = <<>>
    /\ url_map = <<>>
    /\ duplicates = <<>>
    /\ entry = "none"
    /\ token = EnvToken
    /\ raindrop_client = "None"
    /\ reports = 0
    /\ outcome = "pending"
    /\ attempts = 0
    /\ constructions = 0
    /\ handed = <<>>
    /\ divisors = {}
    /\ total = 0
    /\ count_hint = <<>>
    /\ per_page = PageSize
    /\ \E n \in 0..MaxDupItems :
         \E f \in [1..n -> DupLinks] :
            link_items = [k \in 1..n |-> MkItem(k, f[k])]

NextDup ==
    \/ DupStart
    \/ DupGroup
    \/ DupFilter

SpecDup == InitDup /\ [][NextDup]_vars

----------------------------------------------------------------------------
(* The tools of server.py handle_call_tool and the commands of             *)
(* cli/search.py, from the construction of their client on                 *)

Tools == {"list_collections", "search_bookmarks", "get_bookmark", "list_tags",
          "get_statistics", "find_duplicates", "find_broken_links"}
Commands == {"search_and_save", "find_duplicates_report", "check_broken_links_report"}
Direct == "RaindropClient"

\* handle_call_tool runs every tool inside try ... except Exception as e:
\* return [TextContent(type="text", text=f"Error: {str(e)}")]
Caught_never(e) == FALSE
Caught(e) == e \in Tools

\* what the tool or command calls first on its client
FetchOf(e) ==
    CASE e \in {"get_statistics", "find_duplicates", "find_broken_links",
                "find_duplicates_report", "check_broken_links_report"} -> "get_all_raindrops"
      [] e = "search_and_save" -> "fetch_all_pages"
      [] e = Direct -> "none"
      [] OTHER -> "api_call"

\* what it runs on the fetched items
ThenOf(e) ==
    CASE e \in {"get_statistics", "find_duplicates", "find_duplicates_report"} -> e
      [] e \in {"find_broken_links", "check_broken_links_report"} -> "check_links_status"
      [] OTHER -> "none"

\* RaindropClient(...): get_raindrop_client() inside the try of handle_call_tool,
\* client = RaindropClient() before the try of a command
Construct ==
    /\ entry \in Tools \cup Commands \cup {Direct}
    /\ pc = "entry"
    /\ IF MissingToken(TokenOr(token.arg, token.env))
       THEN /\ pc' = "ended"
            /\ outcome' = IF Caught(entry) THEN "error_text" ELSE "ValueError"
            /\ UNCHANGED raindrop_client
       ELSE /\ raindrop_client' = IF entry \in Tools THEN "client" ELSE raindrop_client
            /\ pc' = IF entry = Direct THEN "ended" ELSE "start"
            /\ outcome' = IF entry = Direct THEN "returned" ELSE outcome
    /\ UNCHANGED <<histVars, server, url_map, duplicates, entry, token, reports, routine,
                   max_concurrent, inflight, results, batch, i, fetchVars, linkVars>>

\* list_collections, search_bookmarks, get_bookmark, list_tags: one awaited request
ApiCall ==
    /\ routine = "api_call"
    /\ pc = "start"
    /\ reqlog' = Append(reqlog, 0)
    /\ pc' \in {"done", "raised"}
    /\ UNCHANGED <<ctxVars, routine, max_concurrent, inflight, results, batch, i, total,
                   count_hint, per_page, items, count, remaining_pages, all_items,
                   page, batches, sleeps, linkVars>>

\* the fetched items go to the grouping loop or to check_links_status
EntryChain ==
    /\ entry # "none"
    /\ pc = "done"
    /\ routine = "get_all_raindrops"
    /\ ThenOf(entry) # "none"
    /\ routine' = ThenOf(entry)
    /\ pc' = "start"
    /\ UNCHANGED <<ctxVars, max_concurrent, inflight, results, batch, i, fetchVars,
                   linkVars>>

\* a command writes its report unless there is nothing to report
HasReport ==
    CASE entry = "search_and_save" -> all_items # <<>>
      [] entry = "find_duplicates_report" -> DOMAIN duplicates # {}
      [] entry = "check_broken_links_report" -> broken # <<>>
      [] OTHER -> FALSE

\* type_counts: the content types of the items, item.get("type", "link")
TypesOf_default(its) == {"link"}
TypesOf(its) == {DictGet(its[k], "type", "link") : k \in DOMAIN its}

\* x * 100 // n if n > 0 else 0
Guarded(n) == n > 0

\* the divisors of the divisions evaluated for the output: get_statistics
\* (server.py:380-387, n = total_count), check_broken_links_report
\* (cli/search.py:323-363, n = len(items))
Divisions ==
    LET n == Len(items)
    IN  CASE entry = "get_statistics"
               -> (IF Guarded(n) THEN {n} ELSE {}) \cup {n : t \in TypesOf(link_items)}
          [] entry = "check_broken_links_report"
               -> (IF Guarded(n) THEN {n} ELSE {})
                     \cup (IF broken # <<>> THEN {n} ELSE {})
          [] OTHER -> {}

\* the tool returns its text (or "Error: ..."), the command returns; a
\* ZeroDivisionError while the output is built is an exception like any other
EntryFinish ==
    /\ entry # "none"
    /\ pc \in {"done", "raised"}
    /\ pc = "done" => (routine # "get_all_raindrops" \/ ThenOf(entry) = "none")
    /\ pc' = "ended"
    /\ LET ds == IF pc = "done" THEN Divisions ELSE {}
       IN  /\ divisors' = divisors \cup ds
           /\ outcome' = IF pc = "done" /\ 0 \notin ds THEN "returned"
                         ELSE IF Caught(entry) THEN "error_text" ELSE "error_printed"
    /\ reports' = IF pc = "done" /\ HasReport THEN reports + 1 ELSE reports
    /\ UNCHANGED <<attempts, constructions, handed, server, url_map, duplicates, entry,
                   token, raindrop_client, routine, max_concurrent, inflight, results,
                   batch, i, fetchVars, linkVars>>

\* a token value: absent, empty, or a token
TokenValues == {<<>>, <<"">>, <<"secret">>}

\* the links of the fetched bookmarks
EntryLinks == {"http://ok/", "http://gone/"}

\* the defaults of max_concurrent (10, 20) exceed the few bookmarks fetched here
InitEntry ==
    /\ entry \in Tools \cup Commands \cup {Direct}
    /\ routine = FetchOf(entry)
    /\ token \in [arg : (IF entry = Direct THEN TokenValues ELSE {<<>>}), env : TokenValues]
    /\ raindrop_client = "None"
    /\ reports = 0
    /\ outcome = "pending"
    /\ attempts = 0
    /\ constructions = 0
    /\ handed = <<>>
    /\ divisors = {}
    /\ server = "honest"
    /\ max_concurrent = MaxConcurrent
    /\ pc = "entry"
    /\ inflight = {}
    /\ results = <<>>
    /\ batch = <<>>
    /\ items = <<>>
    /\ count = 0
    /\ remaining_pages = <<>>
    /\ i = 0
    /\ all_items = <<>>
    /\ page = 0
    /\ reqlog = <<>>
    /\ batches = 0
    /\ sleeps = 0
    /\ broken = <<>>
    /\ probelog = <<>>
    /\ run = 1
    /\ first_broken = <<>>
    /\ url_map = <<>>
    /\ duplicates = <<>>
    /\ total \in 0..MaxEntryItems
    /\ count_hint = <<total>>
    /\ per_page = PageSize
    /\ \E f \in [1..total -> EntryLinks] :
         link_items = [k \in 1..total |-> MkItem(k, f[k])]

NextEntry ==
    \/ Construct
    \/ ApiCall
    \/ GarStart
    \/ GarFirst
    \/ FapStart
    \/ FapFirst
    \/ \E p \in inflight : PageSettles(p)
    \/ EntryChain
    \/ DupStart
    \/ DupGroup
    \/ DupFilter
    \/ ClsStart
    \/ ClsIssueBatch
    \/ \E t \in inflight : ProbeSettles(t)
    \/ ClsProcess
    \/ EntryFinish

SpecEntry == InitEntry /\ [][NextEntry]_vars

----------------------------------------------------------------------------
(* server.py get_raindrop_client over the tool calls of one process. The   *)
(* function holds no await, so however the tool calls interleave, its      *)
(* calls run one after the other.                                          *)

\* if _raindrop_client is None
CacheIsEmpty_always(c) == TRUE
CacheIsEmpty(c) == c = "None"

\* a tool call runs get_raindrop_client(): RaindropClient() reads RAINDROP_TOKEN;
\* the assignment to _raindrop_client happens only if the constructor returns
GetClient ==
    /\ entry = "get_raindrop_client"
    /\ Len(handed) < MaxCalls
    /\ IF CacheIsEmpty(raindrop_client)
       THEN /\ attempts' = attempts + 1
            /\ IF MissingToken(TokenOr(<<>>, token.env))
               THEN /\ handed' = Append(handed, <<>>)
                    /\ UNCHANGED <<raindrop_client, constructions>>
               ELSE /\ constructions' = constructions + 1
                    /\ raindrop_client' = "client"
                    /\ handed' = Append(handed, <<constructions'>>)
       ELSE /\ handed' = Append(handed, <<constructions>>)
            /\ UNCHANGED <<raindrop_client, attempts, constructions>>
    /\ UNCHANGED <<server, url_map, duplicates, entry, token, reports, outcome, divisors,
                   routine, max_concurrent, pc, inflight, results, batch, i, fetchVars,
                   linkVars>>

\* between two tool calls the process environment may change
EnvChanges ==
    /\ entry = "get_raindrop_client"
    /\ Len(handed) < MaxCalls
    /\ \E e \in TokenValues \ {token.env} : token' = [token EXCEPT !.env = e]
    /\ UNCHANGED <<histVars, server, url_map, duplicates, entry, raindrop_client, reports,
                   outcome, routine, max_concurrent, pc, inflight, results, batch, i,
                   fetchVars, linkVars>>

InitCache ==
    /\ entry = "get_raindrop_client"
    /\ routine = "none"
    /\ token \in [arg : {<<>>}, env : TokenValues]
    /\ raindrop_client = "None"
    /\ reports = 0
    /\ outcome = "pending"
    /\ attempts = 0
    /\ constructions = 0
    /\ handed = <<>>
    /\ divisors = {}
    /\ server = "honest"
    /\ max_concurrent = 1
    /\ pc = "entry"
    /\ inflight = {}
    /\ results = <<>>
    /\ batch = <<>>
    /\ items = <<>>
    /\ count = 0
    /\ remaining_pages = <<>>
    /\ i = 0
    /\ all_items = <<>>
    /\ page = 0
    /\ reqlog = <<>>
    /\ batches = 0
    /\ sleeps = 0
    /\ broken = <<>>
    /\ probelog = <<>>
    /\ run = 1
    /\ first_broken = <<>>
    /\ url_map = <<>>
    /\ duplicates = <<>>
    /\ total = 0
    /\ count_hint = <<>>
    /\ per_page = PageSize
    /\ link_items = <<>>

NextCache ==
    \/ GetClient
    \/ EnvChanges

SpecCache == InitCache /\ [][NextCache]_vars

----------------------------------------------------------------------------
(* server.py handle_call_tool for every tool name *)

\* names that match no branch of handle_call_tool
UnknownNames == {"no_such_tool", ""}

\* else: return [TextContent(type="text", text=f"Unknown tool: {name}")]
UnknownTool ==
    /\ entry \in UnknownNames
    /\ pc = "entry"
    /\ outcome' = "unknown_tool_text"
    /\ pc' = "ended"
    /\ UNCHANGED <<histVars, server, url_map, duplicates, entry, token, raindrop_client,
                   reports, routine, max_concurrent, inflight, results, batch, i,
                   fetchVars, linkVars>>

\* the locals of a call that has not begun
IdleCall ==
    /\ inflight = {}
    /\ results = <<>>
    /\ batch = <<>>
    /\ items = <<>>
    /\ count = 0
    /\ remaining_pages = <<>>
    /\ i = 0
    /\ all_items = <<>>
    /\ page = 0
    /\ reqlog = <<>>
    /\ batches = 0
    /\ sleeps = 0
    /\ broken = <<>>
    /\ probelog = <<>>
    /\ run = 1
    /\ first_broken = <<>>
    /\ url_map = <<>>
    /\ duplicates = <<>>
    /\ raindrop_client = "None"
    /\ reports = 0
    /\ outcome = "pending"
    /\ attempts = 0
    /\ constructions = 0
    /\ handed = <<>>
    /\ divisors = {}

InitTool ==
    /\ entry \in Tools \cup UnknownNames
    /\ routine = (IF entry \in Tools THEN FetchOf(entry) ELSE "none")
    /\ token \in [arg : {<<>>}, env : TokenValues]
    /\ server = "honest"
    /\ max_concurrent = MaxConcurrent
    /\ pc = "entry"
    /\ IdleCall
    /\ total \in 0..MaxEntryItems
    /\ count_hint = <<total>>
    /\ per_page = PageSize
    /\ \E f \in [1..total -> EntryLinks] :
         link_items = [k \in 1..total |-> MkItem(k, f[k])]

NextTool ==
    \/ UnknownTool
    \/ Construct
    \/ ApiCall
    \/ GarStart
    \/ GarFirst
    \/ \E p \in inflight : PageSettles(p)
    \/ EntryChain
    \/ DupStart
    \/ DupGroup
    \/ DupFilter
    \/ ClsStart
    \/ ClsIssueBatch
    \/ \E t \in inflight : ProbeSettles(t)
    \/ ClsProcess
    \/ EntryFinish

SpecTool == InitTool /\ [][NextTool]_vars

----------------------------------------------------------------------------
(* The fetch-all routines over a server that answers every request, for    *)
(* collections up to the reach of the safety limit and per_page above 50   *)

\* the largest collection whose last non-empty page is page 100
LimitTotal == PageSize * (SafetyLimit + 1)

ReliableTotals == (0..MaxTotal) \cup {LimitTotal - PageSize + 1, LimitTotal}

\* per_page as fetch_all_pages may be called: the maximum, and twice the maximum
PerPagesOver == {PageSize, 2 * PageSize}

InitReliable ==
    /\ routine \in {"get_all_raindrops", "fetch_all_pages"}
    /\ server = "reliable"
    /\ entry = "none"
    /\ token = EnvToken
    /\ max_concurrent \in 1..MaxConcurrent
    /\ pc = "start"
    /\ IdleCall
    /\ total \in ReliableTotals
    /\ count_hint \in (IF routine = "get_all_raindrops" THEN {<<total>>} ELSE {<<>>, <<total>>})
    /\ per_page \in (IF routine = "get_all_raindrops" THEN {PageSize} ELSE PerPagesOver)
    /\ link_items = <<>>

NextReliable ==
    \/ GarStart
    \/ GarFirst
    \/ GarIssueBatch
    \/ GarGatherReturns
    \/ GarSleep
    \/ FapStart
    \/ FapFirst
    \/ FapIssueBatch
    \/ FapProcess
    \/ \E p \in inflight : PageSettles(p)

SpecReliable == InitReliable /\ [][NextReliable]_vars

----------------------------------------------------------------------------
(* fetch_all_pages and check_links_status called with max_concurrent <= 0, *)
(* which neither they nor the --max-concurrent option (type=int) reject    *)

NonPositive == (0 - MaxNegative)..0

InitNonPositive ==
    /\ routine \in {"fetch_all_pages", "check_links_status"}
    /\ server = "reliable"
    /\ entry = "none"
    /\ token = EnvToken
    /\ max_concurrent \in NonPositive
    /\ pc = "start"
    /\ IdleCall
    /\ per_page = PageSize
    /\ IF routine = "check_links_status"
       THEN /\ total = 0
            /\ count_hint = <<>>
            /\ \E n \in 0..MaxItems :
                 \E f \in [1..n -> LinkValues] :
                    link_items = [k \in 1..n |-> MkItem(k, f[k])]
       ELSE /\ total \in Totals
            /\ count_hint \in {<<>>, <<total>>}
            /\ link_items = <<>>

NextNonPositive ==
    \/ FapStart
    \/ FapFirst
    \/ FapIssueBatch
    \/ FapProcess
    \/ \E p \in inflight : PageSettles(p)
    \/ ClsStart

SpecNonPositive == InitNonPositive /\ [][NextNonPositive]_vars

----------------------------------------------------------------------------
(* Properties of the bulk fetch *)

IsFetch == routine \in {"get_all_raindrops", "fetch_all_pages"}

\* the list the fetch-all call returns
Returned == IF routine = "get_all_raindrops" THEN items ELSE all_items

\* ceil(a / b): the least k with k * b >= a
CeilDiv(a, b) == CHOOSE k \in 0..a : k * b >= a /\ (k - 1) * b < a

\* the collection's bookmarks lo..hi, in the server's order
Bookmarks(lo, hi) == [k \in 1..(hi - lo + 1) |-> lo + k - 1]

\* the awaited request for page 0 failed
FirstPageFailed ==
    /\ pc \notin {"start", "first"}
    /\ batches = 0
    /\ \E k \in DOMAIN results : results[k].req = 0 /\ IsException(results[k].out)

----------------------------------------------------------------------------
(* C1: get_all_raindrops over a collection whose first page reports a      *)
(* total count N > 50, all page requests succeeding, requests exactly the  *)
(* pages 0..ceil(N/50)-1, each once, the pages after page 0 in             *)
(* ceil((ceil(N/50)-1)/max_concurrent) batches, and returns exactly the N  *)
(* items.                                                                  *)
C1_ExactTotalPath ==
    (/\ routine = "get_all_raindrops"
     /\ pc = "done"
     /\ max_concurrent >= 1
     /\ count_hint = <<total>>
     /\ total > PageSize)
    => /\ Len(reqlog) = CeilDiv(total, PageSize)
       /\ reqlog = [k \in 1..CeilDiv(total, PageSize) |-> k - 1]
       /\ batches = CeilDiv(CeilDiv(total, PageSize) - 1, max_concurrent)
       /\ Len(items) = total
       /\ items = Bookmarks(1, total)

\* N = 120: pages 0, 1, 2 (50, 50 and 20 items), 120 items returned
C1_Witness ==
    /\ routine = "get_all_raindrops"
    /\ pc = "done"
    /\ count_hint = <<120>>
    /\ total = 120
    /\ max_concurrent = 2
    /\ reqlog = <<0, 1, 2>>
    /\ batches = 1
    /\ Len(items) = 120

(* C2 as stated: over a collection of at most page_size (50) items each    *)
(* fetch-all routine requests page 0 only and returns that page's items.   *)
C2_Original ==
    (/\ IsFetch
     /\ pc = "done"
     /\ max_concurrent >= 1
     /\ per_page = PageSize
     /\ total <= PageSize)
    => /\ reqlog = <<0>>
       /\ Returned = Bookmarks(1, total)

(* C2 amended: over a collection of at most 50 items, get_all_raindrops    *)
(* requests page 0 only; fetch_all_pages (per_page = 50) requests page 0   *)
(* only when the collection has fewer than 50 items, and over exactly 50   *)
(* items it goes on to request one batch, the pages 1..max_concurrent;     *)
(* both return exactly page 0's items.                                     *)
C2_SinglePage ==
    (/\ IsFetch
     /\ pc = "done"
     /\ max_concurrent >= 1
     /\ per_page = PageSize
     /\ total <= PageSize)
    => /\ Returned = Bookmarks(1, total)
       /\ IF routine = "fetch_all_pages" /\ total = PageSize
          THEN reqlog = [k \in 1..(max_concurrent + 1) |-> k - 1]
          ELSE reqlog = <<0>>

C2_Witness ==
    /\ routine = "fetch_all_pages"
    /\ pc = "done"
    /\ per_page = PageSize
    /\ total = PageSize
    /\ max_concurrent = 2
    /\ reqlog = <<0, 1, 2>>
    /\ Len(all_items) = PageSize

(* C3: a failure of a page request other than page 0 never makes a         *)
(* fetch-all call raise: when a call has raised, it is page 0 that failed. *)
C3_LaterPageFailureNotFatal ==
    (IsFetch /\ max_concurrent >= 1 /\ pc = "raised") => FirstPageFailed

(* C4: when the page-0 request fails the fetch-all call raises, has        *)
(* requested page 0 only, and holds no item.                               *)
C4_FirstPageFailurePropagates ==
    (IsFetch /\ FirstPageFailed)
    => /\ pc = "raised"
       /\ reqlog = <<0>>
       /\ inflight = {}
       /\ Returned = <<>>

C4_Witness ==
    /\ routine = "fetch_all_pages"
    /\ FirstPageFailed
    /\ pc = "raised"
    /\ total = 120
    /\ reqlog = <<0>>

----------------------------------------------------------------------------
(* Properties of the link validator *)

IsCls == routine = "check_links_status"

\* the item at position k carries a non-empty URL
Probeable(k) == "link" \in DOMAIN link_items[k] /\ link_items[k].link # ""

\* the final status code of the probe of item k, when the probe got a response
Responded(k) == Probeable(k) /\ "status_code" \in DOMAIN Transport(link_items[k].link)
Code(k) == Transport(link_items[k].link).status_code

\* the fault the probe of item k ended in, when it got no response
Faulted(k, exc) ==
    /\ Probeable(k)
    /\ "exc" \in DOMAIN Transport(link_items[k].link)
    /\ Transport(link_items[k].link).exc = exc

\* the probe of item k failed
ProbeFails(k) == Probeable(k) /\ (Responded(k) => Code(k) >= 400)

\* the decimal text of the status codes the simulated hosts answer with
DecimalText(c) ==
    CASE c = 200 -> <<"2", "0", "0">>
      [] c = 399 -> <<"3", "9", "9">>
      [] c = 400 -> <<"4", "0", "0">>
      [] c = 404 -> <<"4", "0", "4">>
      [] c = 500 -> <<"5", "0", "0">>

\* the entries of the returned list that are about the item at position k
EntriesOf(k) == {e \in DOMAIN broken : broken[e][1] = link_items[k]}

FailingPositions ==
    SelectSeq([k \in DOMAIN link_items |-> k], ProbeFails)

(* C6: check_links_status returns exactly the items with a non-empty URL   *)
(* whose probe failed, each once, paired with its own probe's status, in   *)
(* input order; an item whose probe ended with a status < 400 is absent.   *)
C6_ExactlyTheFailures ==
    (IsCls /\ pc = "done" /\ max_concurrent >= 1)
    => /\ Len(broken) = Len(FailingPositions)
       /\ \A e \in DOMAIN broken :
             /\ broken[e][1] = link_items[FailingPositions[e]]
             /\ broken[e][2] = check_link_status(link_items[FailingPositions[e]].link).status
       /\ \A k \in DOMAIN link_items :
             (Responded(k) /\ Code(k) < 400) => EntriesOf(k) = {}

C6_Witness ==
    /\ IsCls
    /\ pc = "done"
    /\ max_concurrent = 2
    /\ Len(link_items) = 3
    /\ ~Probeable(1)
    /\ Responded(2) /\ Code(2) = 399
    /\ Faulted(3, "TimeoutException")
    /\ Len(broken) = 1
    /\ broken[1][1] = link_items[3]

(* C7: over a whole call, each item with a non-empty link is probed        *)
(* exactly once and no item whose link is missing or empty is probed.      *)
C7_OneProbePerUrl ==
    (IsCls /\ max_concurrent >= 1)
    => /\ \A a \in DOMAIN probelog : Probeable(probelog[a])
       /\ \A a, b \in DOMAIN probelog : probelog[a] = probelog[b] => a = b
       /\ pc = "done" =>
             /\ \A k \in DOMAIN link_items :
                   Probeable(k) => \E a \in DOMAIN probelog : probelog[a] = k
             /\ Len(probelog) = Cardinality({k \in DOMAIN link_items : Probeable(k)})

C7_Witness ==
    /\ IsCls
    /\ pc = "done"
    /\ max_concurrent = 2
    /\ Len(link_items) = 3
    /\ "link" \notin DOMAIN link_items[1]
    /\ "link" \in DOMAIN link_items[2]
    /\ link_items[2].link = ""
    /\ Probeable(3)
    /\ probelog = <<3>>

(* C8: check_links_status never raises because of a per-item fault: a     *)
(* probe that times out is reported as "Timeout", a connection that cannot *)
(* be established as "Connection failed", any other fault as "Error: "     *)
(* followed by at most 50 characters of the fault text, and the other      *)
(* probes of the batch and all later batches still run and are reported.   *)
C8_FaultsAreClassified ==
    (IsCls /\ max_concurrent >= 1)
    => /\ pc # "raised"
       /\ pc = "done" =>
             \A k \in DOMAIN link_items :
                /\ Probeable(k) => \E a \in DOMAIN probelog : probelog[a] = k
                /\ ProbeFails(k) => EntriesOf(k) # {}
                /\ \A e \in EntriesOf(k) :
                      /\ Faulted(k, "TimeoutException")
                            => broken[e][2] = <<"T", "i", "m", "e", "o", "u", "t">>
                      /\ Faulted(k, "ConnectError")
                            => broken[e][2] = <<"C", "o", "n", "n", "e", "c", "t", "i", "o",
                                                "n", " ", "f", "a", "i", "l", "e", "d">>
                      /\ Faulted(k, "Exception")
                            => LET text == Transport(link_items[k].link).text
                                   tail == SubSeq(broken[e][2], 8, Len(broken[e][2]))
                               IN  /\ Len(broken[e][2]) >= 7
                                   /\ SubSeq(broken[e][2], 1, 7)
                                         = <<"E", "r", "r", "o", "r", ":", " ">>
                                   /\ Len(tail) <= 50
                                   /\ Len(tail) = Min(50, Len(text))
                                   /\ tail = SubSeq(text, 1, Len(tail))

\* a fault with a long text in the first batch, a time-out in the second
C8_Witness ==
    /\ IsCls
    /\ pc = "done"
    /\ max_concurrent = 2
    /\ Len(link_items) = 3
    /\ Faulted(1, "Exception")
    /\ Len(Transport(link_items[1].link).text) > 50
    /\ Faulted(2, "ConnectError")
    /\ Faulted(3, "TimeoutException")
    /\ Len(broken) = 3
    /\ Len(broken[1][2]) = 57

(* C9: a second invocation of check_links_status on the same list, with    *)
(* the same max_concurrent and the same per-URL outcomes, returns the list *)
(* the first one returned, whatever order the probes of a batch end in.    *)
C9_SameResultAgain ==
    (IsCls /\ max_concurrent >= 1 /\ run = 2 /\ pc = "done")
    => broken = first_broken

\* the second run's last batch settled in the order opposite to the tasks'
C9_Witness ==
    /\ IsCls
    /\ run = 2
    /\ pc = "done"
    /\ max_concurrent = 3
    /\ Len(broken) = 3
    /\ broken[1][2] # broken[2][2]
    /\ broken[2][2] # broken[3][2]
    /\ Len(results) = 3
    /\ results[1].req = 3 /\ results[2].req = 2 /\ results[3].req = 1
    /\ broken = first_broken

\* every page of the awaited batch yielded zero items (empty or errored)
BatchAllZero ==
    \A k \in DOMAIN batch :
       \E r \in DOMAIN results :
          /\ results[r].req = batch[k]
          /\ \/ "error" \in DOMAIN results[r].out
             \/ /\ "items" \in DOMAIN results[r].out
                /\ results[r].out.items = <<>>

(* C10: in the open-ended scan of fetch_all_pages, once a batch completes  *)
(* in which every page yielded zero items, the scan ends successfully with *)
(* the items accumulated so far, and no page request is issued afterwards. *)
C10_EmptyBatchEndsScan ==
    [][ (routine = "fetch_all_pages" /\ max_concurrent >= 1)
        => /\ (pc = "gather" /\ pc' # "gather" /\ BatchAllZero)
              => (pc' = "done" /\ all_items' = all_items /\ reqlog' = reqlog)
           /\ (pc = "done") => (pc' = "done" /\ reqlog' = reqlog
                                 /\ all_items' = all_items /\ inflight' = inflight)
      ]_vars

\* 100 bookmarks, two per batch: pages 1, 2 then pages 3, 4, one of them failing
C10_Witness ==
    /\ routine = "fetch_all_pages"
    /\ pc = "done"
    /\ max_concurrent = 2
    /\ total = 100
    /\ batches = 2
    /\ reqlog = <<0, 1, 2, 3, 4>>
    /\ BatchAllZero
    /\ \E r \in DOMAIN results : IsException(results[r].out)
    /\ \E r \in DOMAIN results : ~IsException(results[r].out)
    /\ Len(all_items) = 100

----------------------------------------------------------------------------
(* Properties of the scan's safety limit *)

\* the call is over: it returned or it raised
Ended == pc \in {"done", "raised"}

\* the scan stopped at the safety limit, not at an empty batch
StoppedAtLimit == pc = "done" /\ batches >= 1 /\ page > SafetyLimit /\ ~BatchAllZero

(* C11: for every max_concurrent >= 1 and a server that never returns an   *)
(* empty page, each request succeeding or failing, fetch_all_pages issues  *)
(* at most 100 batches of page requests, never stalls before it ends, does *)
(* not raise once the scan has begun, and on reaching the safety limit     *)
(* returns the items accumulated so far.                                   *)
C11_ScanIsBounded ==
    (routine = "fetch_all_pages" /\ max_concurrent >= 1)
    => /\ batches <= SafetyLimit
       /\ Ended \/ ENABLED NextScan
       /\ batches >= 1 => pc # "raised"
       /\ StoppedAtLimit
          => /\ Len(reqlog) = 1 + batches * max_concurrent
             /\ Len(all_items) >= PageSize * (Len(reqlog) - MaxFailPage)
             /\ Len(all_items) % PageSize = 0
             /\ \A k \in DOMAIN all_items :
                   k > 1 => all_items[k - 1] < all_items[k]

\* one page per batch: the hundredth batch asks for page 100 and the scan stops
C11_Witness ==
    /\ routine = "fetch_all_pages"
    /\ server = "endless"
    /\ max_concurrent = 1
    /\ StoppedAtLimit
    /\ batches = SafetyLimit
    /\ page = SafetyLimit + 1
    /\ reqlog[Len(reqlog)] = SafetyLimit
    /\ Len(all_items) = PageSize * (SafetyLimit + 1)

----------------------------------------------------------------------------
(* Properties of the batches *)

\* the step issues requests
Issues == inflight' \ inflight # {} \/ reqlog' # reqlog \/ probelog' # probelog

(* C12: strict batch barrier. In get_all_raindrops, fetch_all_pages and    *)
(* check_links_status a step issues the requests of a batch only when no   *)
(* earlier request of the call is still in flight: every request of the    *)
(* batch before has succeeded, failed or timed out.                        *)
C12_BatchBarrier ==
    [][ (max_concurrent >= 1 /\ Issues)
        => /\ inflight = {}
           /\ pc \in {"start", "batch"}
           /\ \A r \in SeqToSet(batch) : \E k \in DOMAIN results : results[k].req = r
      ]_vars

\* the second batch of probes is in flight; the first held a probe that timed out
C12_Witness ==
    /\ routine = "check_links_status"
    /\ pc = "gather"
    /\ max_concurrent = 2
    /\ Len(link_items) = 3
    /\ probelog = <<1, 2, 3>>
    /\ inflight = {3}
    /\ results = <<>>
    /\ \E k \in DOMAIN broken : broken[k][2] = TimeoutText

(* C13: at every instant of a get_all_raindrops, fetch_all_pages or        *)
(* check_links_status call with max_concurrent >= 1, at most               *)
(* max_concurrent requests of the call are in flight; in                   *)
(* check_links_status an item without URL takes a place of its batch but   *)
(* no probe, so the bound holds there too.                                 *)
C13_InFlightBounded ==
    max_concurrent >= 1
    => /\ Cardinality(inflight) <= max_concurrent
       /\ inflight \subseteq SeqToSet(batch) \cup {0}
       /\ Len(batch) <= max_concurrent

\* a batch of two items, the first without a link key: one probe in flight
C13_Witness ==
    /\ routine = "check_links_status"
    /\ pc = "gather"
    /\ max_concurrent = 2
    /\ Len(link_items) = 3
    /\ "link" \notin DOMAIN link_items[1]
    /\ HasUrl(2) /\ HasUrl(3)
    /\ i = 0
    /\ batch = <<2>>
    /\ inflight = {2}

(* C14: in get_all_raindrops exactly one sleep lies between every two      *)
(* successive batches of remaining pages and none follows the final batch: *)
(* once k >= 1 batches are issued the call has slept k - 1 times (zero for *)
(* a single batch), and k times only while batch k + 1 is about to be      *)
(* issued.                                                                 *)
C14_SleepsBetweenBatches ==
    (routine = "get_all_raindrops" /\ max_concurrent >= 1)
    => /\ batches = 0 => sleeps = 0
       /\ (batches >= 1 /\ pc \in {"gather", "sleep", "done", "raised"})
             => sleeps = batches - 1
       /\ (batches >= 1 /\ pc = "batch") => sleeps = batches
       /\ pc = "sleep" => i + max_concurrent < Len(remaining_pages)

\* 151 bookmarks one page at a time: three batches, two sleeps
C14_Witness ==
    /\ routine = "get_all_raindrops"
    /\ pc = "done"
    /\ max_concurrent = 1
    /\ total = 151
    /\ reqlog = <<0, 1, 2, 3>>
    /\ batches = 3
    /\ sleeps = 2

(* C15: for every max_concurrent passed to get_all_raindrops, the          *)
(* max_concurrent page requests issued per 6-second sleep interval stay at *)
(* or under 120 requests per minute. The batch of 13 requests that         *)
(* max_concurrent = 13 issues before a sleep makes 130 requests per        *)
(* minute.                                                                 *)
C15_RateUnderCeiling ==
    (routine = "get_all_raindrops" /\ max_concurrent >= 1 /\ pc = "sleep")
    => Len(batch) * 60 <= RateLimit * SleepSeconds

\* the sequence ascends strictly, so no value occurs twice in it
NoRepeat(seq) == \A k \in DOMAIN seq : k > 1 => seq[k - 1] < seq[k]

(* C16: within one get_all_raindrops or fetch_all_pages call each page     *)
(* index is requested at most once, also when its request fails, and the   *)
(* items of a page are appended at most once: the server holding each      *)
(* bookmark on one page, no bookmark occurs twice in the aggregate, at any *)
(* point of the call.                                                      *)
C16_NoRepeatedPage ==
    (IsFetch /\ max_concurrent >= 1)
    => /\ NoRepeat(reqlog)
       /\ NoRepeat(Returned)
       /\ Len(reqlog) >= 1 => reqlog[1] = 0

\* 151 bookmarks two pages at a time, one page request failed: its 50 items
\* are missing and the scan ended without asking for the page again
C16_Witness ==
    /\ routine = "fetch_all_pages"
    /\ pc = "done"
    /\ max_concurrent = 2
    /\ total = 151
    /\ reqlog = <<0, 1, 2, 3, 4, 5, 6>>
    /\ Len(all_items) = 101
    /\ NoRepeat(all_items)

----------------------------------------------------------------------------
(* Properties of the first page *)

\* the first page arrived and holds n items
FirstPageHolds(n) ==
    /\ IsFetch
    /\ pc \notin {"start", "first"}
    /\ ~FirstPageFailed
    /\ Len(ServerPage(0, per_page)) = n

(* C20: when the first page is full (page_size items) and its response     *)
(* carries no total count, get_all_raindrops goes on to request page 1     *)
(* instead of returning only the first page. The code reads the missing    *)
(* count as 0 and returns the first page alone.                            *)
C20_ScansWithoutCount ==
    (/\ routine = "get_all_raindrops"
     /\ max_concurrent >= 1
     /\ count_hint = <<>>
     /\ FirstPageHolds(PageSize)
     /\ pc = "done")
    => /\ Len(reqlog) >= 2
       /\ reqlog[2] = 1
       /\ Len(items) = total

(* C19: if the first page holds fewer than page_size items,                *)
(* get_all_raindrops and fetch_all_pages return that page's items without  *)
(* any further page request, whatever count the first response carries.    *)
(* get_all_raindrops looks at the count alone: with 49 items and a count   *)
(* of 51 it requests page 1.                                               *)
C19_ShortFirstPageEnds ==
    (/\ IsFetch
     /\ max_concurrent >= 1
     /\ \E n \in 0..(PageSize - 1) : FirstPageHolds(n)
     /\ pc = "done")
    => /\ reqlog = <<0>>
       /\ Returned = ServerPage(0, per_page)

----------------------------------------------------------------------------
(* Properties of the duplicate grouping *)

\* the items whose link is u, in input order
WithLink(u) == SelectSeq(link_items, LAMBDA it : "link" \in DOMAIN it /\ it.link = u)

(* C17: duplicate grouping (find_duplicates, get_statistics,               *)
(* find_duplicates_report): a URL has a duplicate group if and only if at  *)
(* least two items have it as their link; its group is exactly those items *)
(* in input order; items with an empty or missing link are in no group.    *)
C17_DuplicateGroups ==
    (routine \in Groupers /\ pc = "done")
    => /\ \A u \in DupLinks \ {"", NoLink} :
            /\ u \in DOMAIN duplicates <=> Len(WithLink(u)) >= 2
            /\ u \in DOMAIN duplicates => duplicates[u] = WithLink(u)
       /\ DOMAIN duplicates \subseteq DupLinks \ {"", NoLink}
       /\ \A u \in DOMAIN duplicates :
            \A k \in DOMAIN duplicates[u] :
               /\ "link" \in DOMAIN duplicates[u][k]
               /\ duplicates[u][k].link # ""

\* links [u1, u1, u2, u1]: the u1 group holds items 1, 2, 4 and u2 has no group
C17_Witness ==
    /\ routine = "find_duplicates"
    /\ pc = "done"
    /\ Len(link_items) = 4
    /\ UrlAt(1) = "http://ok/" /\ UrlAt(2) = "http://ok/"
    /\ UrlAt(3) = "http://gone/" /\ UrlAt(4) = "http://ok/"
    /\ DOMAIN duplicates = {"http://ok/"}
    /\ Len(duplicates["http://ok/"]) = 3
    /\ duplicates["http://ok/"][3].id = 4

----------------------------------------------------------------------------
(* Properties of the client construction *)

\* no token is passed and RAINDROP_TOKEN is unset
NoToken == token.arg = <<>> /\ token.env = <<>>

(* C18: when no token is passed and RAINDROP_TOKEN is unset, constructing  *)
(* RaindropClient fails with ValueError before any request: the tool or    *)
(* command that needs the client ends at once, a tool with the error as    *)
(* its text, a command and a direct construction with the ValueError, and  *)
(* no page request, no probe and no report file is made and the tool-side  *)
(* client cache stays empty.                                               *)
C18_NoTokenNoWork ==
    (entry # "none" /\ NoToken)
    => /\ reqlog = <<>>
       /\ probelog = <<>>
       /\ inflight = {}
       /\ reports = 0
       /\ raindrop_client = "None"
       /\ pc \in {"entry", "ended"}
       /\ pc = "ended" => outcome = IF entry \in Tools THEN "error_text" ELSE "ValueError"

\* find_broken_links over two bookmarks without a token
C18_Witness ==
    /\ entry = "find_broken_links"
    /\ NoToken
    /\ total = 2
    /\ pc = "ended"
    /\ outcome = "error_text"
    /\ raindrop_client = "None"
    /\ reqlog = <<>>

----------------------------------------------------------------------------
(* Properties of the safety limit's reach *)

(* C22: the safety limit of fetch_all_pages allows 100 x max_concurrent    *)
(* pages: on a server whose pages are all non-empty and error-free the     *)
(* limit does not stop the scan before 100 batches have been requested,    *)
(* for every max_concurrent >= 1. The limit compares the page index, not   *)
(* the number of batches: with max_concurrent = 2 the scan stops after 50  *)
(* batches, at page 101.                                                   *)
C22_LimitAfterHundredBatches ==
    (/\ routine = "fetch_all_pages"
     /\ max_concurrent >= 1
     /\ StoppedAtLimit
     /\ Len(all_items) = PageSize * Len(reqlog))
    => /\ batches >= SafetyLimit
       /\ Len(reqlog) = 1 + SafetyLimit * max_concurrent

----------------------------------------------------------------------------
(* Properties of the end of a call *)

(* C23: when get_all_raindrops, fetch_all_pages or check_links_status      *)
(* returns or raises, none of the requests it issued is still in flight,   *)
(* also when one request of a batch fails while others of the batch are    *)
(* pending. get_all_raindrops raises on the first failure of a batch and   *)
(* leaves the batch's other requests in flight.                            *)
C23_NothingInFlightAtEnd ==
    (max_concurrent >= 1 /\ Ended) => inflight = {}

----------------------------------------------------------------------------
(* Properties of the commands and tools *)

(* C24: in search_and_save, find_duplicates_report and                     *)
(* check_broken_links_report a missing credential is handled by printing   *)
(* a diagnostic and returning None: no report file is written and no       *)
(* exception escapes the function. The three construct their client        *)
(* before their try, so the ValueError escapes.                            *)
C24_CommandHandlesNoToken ==
    (entry \in Commands /\ NoToken /\ pc = "ended")
    => /\ outcome = "error_printed"
       /\ reports = 0

\* the get_raindrop_client calls that raised
RaisedCalls == {k \in DOMAIN handed : handed[k] = <<>>}

(* C25: across any sequence of tool calls get_raindrop_client constructs   *)
(* at most one RaindropClient and returns that same instance on every      *)
(* later call; a construction that fails leaves the cache empty, and every *)
(* call made while the cache is empty attempts the construction again.     *)
C25_OneClient ==
    entry = "get_raindrop_client"
    => /\ constructions <= 1
       /\ raindrop_client = "None" <=> constructions = 0
       /\ \A k \in DOMAIN handed :
            /\ handed[k] \in {<<>>, <<1>>}
            /\ handed[k] = <<1>> => \A m \in k..Len(handed) : handed[m] = <<1>>
       /\ attempts = Cardinality(RaisedCalls) + constructions
       /\ constructions = 0 => RaisedCalls = DOMAIN handed

\* two calls fail, the token appears, the third call constructs the client
\* and the fourth gets the same one although the token is gone again
C25_Witness ==
    /\ entry = "get_raindrop_client"
    /\ handed = << <<>>, <<>>, <<1>>, <<1>> >>
    /\ attempts = 3
    /\ constructions = 1
    /\ raindrop_client = "client"
    /\ token.env = <<>>

\* something went wrong while the tool ran: no client, or a failed request
ToolFailed ==
    \/ MissingToken(TokenOr(token.arg, token.env))
    \/ \E k \in DOMAIN results : IsException(results[k].out)
    \/ (routine = "api_call" /\ reqlog # <<>> /\ outcome # "returned")

(* C26: handle_call_tool never raises. For every tool name, whatever goes  *)
(* wrong while the tool runs (no client, a failed fetch) ends the call     *)
(* with the one text "Error: ...", and a name that is no tool ends it      *)
(* with "Unknown tool: <name>" and without any request.                    *)
C26_ToolNeverRaises ==
    (entry \in Tools \cup UnknownNames)
    => /\ pc # "ended" => outcome = "pending"
       /\ pc = "ended"
            => /\ outcome \in {"returned", "error_text", "unknown_tool_text"}
               /\ outcome = "unknown_tool_text" <=> entry \in UnknownNames
               /\ (entry \in Tools /\ ToolFailed) <=> outcome = "error_text"
       /\ entry \in UnknownNames
            => reqlog = <<>> /\ probelog = <<>> /\ inflight = {}
                 /\ raindrop_client = "None"

\* find_duplicates with a token: the first page request fails
C26_Witness ==
    /\ entry = "find_duplicates"
    /\ pc = "ended"
    /\ token.env = <<"secret">>
    /\ raindrop_client = "client"
    /\ reqlog = <<0>>
    /\ FirstPageFailed
    /\ outcome = "error_text"

\* the tool and the command whose output holds percentages
Dividers == {"get_statistics", "check_broken_links_report"}

(* C29: no report or statistics computation divides by zero: for every     *)
(* fetched item list, the empty one included, and every broken-link list   *)
(* derived from it, the percentages of get_statistics and                  *)
(* check_broken_links_report, the unguarded ones too, are evaluated only   *)
(* when the item count is positive.                                        *)
C29_NoDivisionByZero ==
    (entry \in Dividers)
    => /\ 0 \notin divisors
       /\ divisors \subseteq {Len(items)}
       /\ (pc = "ended" /\ outcome = "returned")
            => (divisors = {} <=> Len(items) = 0)

\* get_statistics over an empty collection
C29_Witness ==
    /\ entry = "get_statistics"
    /\ pc = "ended"
    /\ outcome = "returned"
    /\ reqlog = <<0>>
    /\ total = 0
    /\ items = <<>>
    /\ divisors = {}

----------------------------------------------------------------------------
(* Properties of the fetch over a server that answers every request *)

(* C21: fetch_all_pages called with per_page > 50 issues the same page     *)
(* requests and returns the same items as the call with per_page = 50: it  *)
(* requests page 1 after a full first page and retrieves every item of the *)
(* collection. The request is clamped to 50 items, but the first page is   *)
(* still compared with the unclamped per_page, so a full first page of 50  *)
(* ends the call.                                                          *)
C21_ClampedLikeFifty ==
    (/\ routine = "fetch_all_pages"
     /\ server = "reliable"
     /\ max_concurrent >= 1
     /\ per_page > PageSize
     /\ pc = "done")
    => /\ all_items = Bookmarks(1, total)
       /\ total >= PageSize => (Len(reqlog) >= 2 /\ reqlog[2] = 1)

\* the pages requested so far, as the server holds them, one after the other
RECURSIVE PagesInOrder(_)
PagesInOrder(k) ==
    IF k = 0 THEN <<>>
    ELSE PagesInOrder(k - 1) \o ServerPage(reqlog[k], per_page)

(* C27: when no page request fails, the list get_all_raindrops and         *)
(* fetch_all_pages return is the concatenation of the fetched pages in     *)
(* ascending page-index order, page 0 first and each page's items in       *)
(* server order, whatever order the requests of a batch complete in.       *)
C27_PagesInAscendingOrder ==
    (IsFetch /\ server = "reliable" /\ max_concurrent >= 1 /\ pc = "done")
    => /\ NoRepeat(reqlog)
       /\ reqlog[1] = 0
       /\ Returned = PagesInOrder(Len(reqlog))

\* one batch of pages 1, 2, 3 answered in the order 3, 2, 1
C27_Witness ==
    /\ routine = "get_all_raindrops"
    /\ server = "reliable"
    /\ pc = "done"
    /\ max_concurrent = 3
    /\ total = 151
    /\ reqlog = <<0, 1, 2, 3>>
    /\ Len(results) = 3
    /\ results[1].req = 3 /\ results[2].req = 2 /\ results[3].req = 1
    /\ items = Bookmarks(1, 151)

(* C28: open-ended scan completeness. For every max_concurrent >= 1, on a  *)
(* server that serves contiguous pages without errors and whose last       *)
(* non-empty page index is at most 100, fetch_all_pages (per_page = 50)    *)
(* returns every item of the collection exactly once.                      *)
C28_ScanIsComplete ==
    (/\ routine = "fetch_all_pages"
     /\ server = "reliable"
     /\ max_concurrent >= 1
     /\ per_page = PageSize
     /\ total <= LimitTotal
     /\ pc = "done")
    => all_items = Bookmarks(1, total)

\* 5050 bookmarks: page 100 is the last and is full; the window that holds it
\* is the last the safety limit lets through
C28_Witness ==
    /\ routine = "fetch_all_pages"
    /\ server = "reliable"
    /\ pc = "done"
    /\ max_concurrent = 1
    /\ per_page = PageSize
    /\ total = LimitTotal
    /\ page = SafetyLimit + 1
    /\ reqlog[Len(reqlog)] = SafetyLimit
    /\ Len(all_items) = LimitTotal

----------------------------------------------------------------------------
(* Properties of a non-positive max_concurrent *)

(* C30: given max_concurrent <= 0, fetch_all_pages and check_links_status  *)
(* either raise or still do all the work: a call that returns has fetched  *)
(* every page, or probed every item that has a URL. With an empty window   *)
(* fetch_all_pages returns the first page alone, and with a negative step  *)
(* check_links_status returns an empty list without a single probe.        *)
C30_NoSilentTruncation ==
    (max_concurrent <= 0 /\ pc = "done")
    => /\ routine = "fetch_all_pages" => all_items = Bookmarks(1, total)
       /\ routine = "check_links_status"
            => /\ \A k \in DOMAIN link_items : HasUrl(k) => k \in SeqToSet(probelog)
               /\ (\E k \in DOMAIN link_items : ProbeFails(k)) => broken # <<>>

====
